---- MODULE Spec2Model ----
(***************************************************************************)
(* Fake-job detection: training script (train.py) and inference endpoint   *)
(* (app.py).  Three specifications share this module:                      *)
(*   SpecSalary : clean_salary, both copies, applied to bounded strings    *)
(*   SpecText   : the text built by load_data and by predict               *)
(*   Spec       : predict requests, load_ml, the model files and train.py  *)
(* Strings are sequences of one-character strings.                         *)
(***************************************************************************)
EXTENDS Integers, Sequences, FiniteSets, TLC

\* ------------------------------------------------------------------ bounds
MaxLen == 5          \* longest salary string drawn in SpecSalary
MaxVersion == 1      \* training runs that Spec lets finish

\* ----------------------------------------------------------------- strings
Digits == {"0", "3"}
Whitespace == {" "}
SalaryAlphabet == Digits \cup {",", " ", "x"}

IsDigit(c) == c \in Digits

DigitVal(c) == IF c = "3" THEN 3 ELSE 0

RECURSIVE StripLeft(_)
StripLeft(s) ==
  IF s = <<>> THEN <<>>
  ELSE IF Head(s) \in Whitespace THEN StripLeft(Tail(s)) ELSE s

RECURSIVE StripRight(_)
StripRight(s) ==
  IF s = <<>> THEN <<>>
  ELSE IF s[Len(s)] \in Whitespace THEN StripRight(SubSeq(s, 1, Len(s) - 1)) ELSE s

\* str.strip()
Strip(s) == StripRight(StripLeft(s))

RECURSIVE Join(_, _)
\* sep.join(parts)
Join(sep, parts) ==
  IF parts = <<>> THEN <<>>
  ELSE IF Len(parts) = 1 THEN parts[1]
  ELSE parts[1] \o sep \o Join(sep, Tail(parts))

\* the replace left out
KeepCommas(x) == x

RECURSIVE RemoveCommas(_)
\* x.replace(",", "")
RemoveCommas(x) ==
  IF x = <<>> THEN <<>>
  ELSE IF Head(x) = "," THEN RemoveCommas(Tail(x))
  ELSE <<Head(x)>> \o RemoveCommas(Tail(x))

RECURSIVE DigitsValue(_)
DigitsValue(x) ==
  IF x = <<>> THEN 0
  ELSE 10 * DigitsValue(SubSeq(x, 1, Len(x) - 1)) + DigitVal(x[Len(x)])

\* float(x): surrounding whitespace is accepted, anything else that is not
\* a digit raises ValueError
Float(x) ==
  LET y == Strip(x) IN
  IF y # <<>> /\ \A i \in 1..Len(y) : IsDigit(y[i])
    THEN [ok |-> TRUE, val |-> DigitsValue(y)]
    ELSE [ok |-> FALSE, val |-> 0]

RECURSIVE DigitRunEnd(_, _)
\* index of the last digit of the digit run that starts at i  (\d+, greedy)
DigitRunEnd(s, i) ==
  IF i < Len(s) /\ IsDigit(s[i + 1]) THEN DigitRunEnd(s, i + 1) ELSE i

\* end of the match of  \d+(?:,\d+)?  starting at the digit at i
MatchEnd(s, i) ==
  LET d == DigitRunEnd(s, i) IN
  IF d + 2 <= Len(s) /\ s[d + 1] = "," /\ IsDigit(s[d + 2])
    THEN DigitRunEnd(s, d + 2)
    ELSE d

RECURSIVE FindAllFrom(_, _)
FindAllFrom(s, i) ==
  IF i > Len(s) THEN <<>>
  ELSE IF IsDigit(s[i])
    THEN LET e == MatchEnd(s, i) IN <<SubSeq(s, i, e)>> \o FindAllFrom(s, e + 1)
    ELSE FindAllFrom(s, i + 1)

\* re.findall(r"\d+(?:,\d+)?", s)
FindAll(s) == FindAllFrom(s, 1)

RECURSIVE GCD(_, _)
GCD(a, b) == IF b = 0 THEN a ELSE GCD(b, a % b)

\* a float result, kept exact as a reduced fraction n/d
Quotient(n, d) ==
  LET g == GCD(n, d) IN [raised |-> FALSE, n |-> n \div g, d |-> d \div g]

ValueError == [raised |-> TRUE, n |-> 0, d |-> 1]

Zero == Quotient(0, 1)

RECURSIVE Sum(_)
Sum(nums) == IF nums = <<>> THEN 0 ELSE Head(nums) + Sum(Tail(nums))

\* [float(x.replace(",", "")) for x in matches]
Nums(matches) == [i \in 1..Len(matches) |-> Float(RemoveCommas(matches[i]))]

\* a salary argument: None (pd.isna) or a string
NoneArg == [none |-> TRUE, str |-> <<>>]
StrArg(s) == [none |-> FALSE, str |-> s]

\* app.py clean_salary
app_clean_salary(a) ==
  IF a.none \/ Strip(a.str) = <<>> THEN Zero
  ELSE LET nums == Nums(FindAll(a.str)) IN
       IF \E i \in 1..Len(nums) : ~nums[i].ok THEN ValueError
       ELSE IF Len(nums) = 0 THEN Zero
       ELSE IF Len(nums) = 1 THEN Quotient(nums[1].val, 1)
       ELSE Quotient(Sum([i \in 1..Len(nums) |-> nums[i].val]), Len(nums))

\* train.py clean_salary
train_clean_salary(a) ==
  IF a.none \/ Strip(a.str) = <<>> THEN Zero
  ELSE LET nums == Nums(FindAll(a.str)) IN
       IF \E i \in 1..Len(nums) : ~nums[i].ok THEN ValueError
       ELSE IF Len(nums) = 0 THEN Zero
       ELSE Quotient(Sum([i \in 1..Len(nums) |-> nums[i].val]), Len(nums))

\* ------------------------------------------------------------ text assembly
\* request.form.get(k, "").strip()
FormGet(form, k) == IF form[k].none THEN <<>> ELSE Strip(form[k].str)

SP == <<" ">>

\* predict: the local `text` after the fold of the discrete fields
predict_text(form) ==
  LET text == FormGet(form, "text")
      job_title == FormGet(form, "job_title")
      salary_range_raw == FormGet(form, "salary_range")
      company_profile == FormGet(form, "company_profile")
      requirements == FormGet(form, "requirements")
  IN IF text = <<>> /\ (job_title # <<>> \/ salary_range_raw # <<>>
                         \/ company_profile # <<>> \/ requirements # <<>>)
       THEN Strip(Join(SP, <<job_title, salary_range_raw, company_profile, requirements>>))
       ELSE text

\* df.fillna("") then .astype(str) on one cell
FillNa(cell) == IF cell.none THEN <<>> ELSE cell.str

\* load_data: df["text"] for one row
load_data_text(row) ==
  FillNa(row.job_title) \o SP \o FillNa(row.company_profile) \o SP \o FillNa(row.requirements)

\* ------------------------------------------------------- files and the cache
ExpectedCols == {"job_title", "salary_range", "company_profile", "requirements", "fraudulent"}

AbsentFile == [state |-> "absent", ver |-> 0]
CorruptFile == [state |-> "corrupt", ver |-> 0]
PartialFile(v) == [state |-> "partial", ver |-> v]
OkFile(v) == [state |-> "ok", ver |-> v]

\* the request has not looked at model.pkl
NotRead == [state |-> "none", ver |-> 0]

\* os.path.exists
Exists(f) == f.state # "absent"

\* joblib.load returns (otherwise it raises)
Loadable(f) == f.state = "ok"

None == [kind |-> "None", ver |-> 0]
Loaded(f) == [kind |-> "object", ver |-> f.ver]

\* the fitted pipeline's predict on one row: opaque, a fixed function of the
\* fitted version and the row
PipelinePredict(ver, text, salary) == (ver + Len(text) + salary.n) % 3

Label(pred) == IF pred = 1 THEN "Fake Job Posting" ELSE "Real Job Posting"

Labels == {"Fake Job Posting", "Real Job Posting"}

SchemaAlwaysOK(cols) == TRUE

\* expected_cols.issubset(df.columns)
SchemaOK(cols) == ExpectedCols \subseteq cols

\* load_data on a dataset with the given columns: the error it raises (if
\* any) and the stages it went through before
load_data(cols) ==
  IF ~SchemaOK(cols)
    THEN [error |-> "SchemaMismatch", steps |-> <<>>]
  ELSE IF "salary_range" \notin cols
    THEN [error |-> "KeyError", steps |-> <<"fillna">>]
  ELSE IF ~({"job_title", "company_profile", "requirements"} \subseteq cols)
    THEN [error |-> "KeyError", steps |-> <<"fillna", "clean_salary">>]
  ELSE IF "fraudulent" \notin cols
    THEN [error |-> "KeyError", steps |-> <<"fillna", "clean_salary", "text">>]
  ELSE [error |-> "", steps |-> <<"fillna", "clean_salary", "text", "select">>]

\* -------------------------------------------------------------------- state
VARIABLES
  salIn,      \* SpecSalary: the argument of clean_salary
  salOut,     \* SpecSalary: result of each copy of clean_salary
  salDone,    \* SpecSalary: the copies that have been applied
  row,        \* SpecText: one record (a dataset row / the same fields as a form)
  txtOut,     \* SpecText: text built by each path
  txtDone,    \* SpecText: the paths that have run
  vecFile,    \* models/vectorizer.pkl
  modelFile,  \* models/model.pkl
  ml,         \* app.ml: the cache entries "vectorizer" and "model"
  pc,         \* per request thread: position in predict / load_ml
  req,        \* per request thread: request.form
  resp,       \* per request thread: what predict returned
  obs,        \* per request thread: model.pkl as load_ml found it in this request
  loadErr,    \* per request thread: load_ml went through its except branch
  trained,    \* per request thread: the request came in with a trained artifact in place
  modelLoads, \* successful joblib.load calls on model.pkl in this process
  trainPc,    \* position of the train.py run
  dfCols,     \* columns of the dataset of the current run
  trainErr,   \* error the current run ended with
  steps,      \* stages the current run has gone through
  runs,       \* completed training runs
  fileAtStart \* model.pkl when the current run started

salVars == <<salIn, salOut, salDone>>
txtVars == <<row, txtOut, txtDone>>
fileVars == <<vecFile, modelFile>>
reqVars == <<ml, pc, req, resp, obs, loadErr, trained, modelLoads>>
trainVars == <<trainPc, dfCols, trainErr, steps, runs, fileAtStart>>
vars == <<salVars, txtVars, fileVars, reqVars, trainVars>>

Threads == {"t1", "t2"}
Paths == {"app", "train"}

RECURSIVE StringsUpTo(_, _)
StringsUpTo(alphabet, n) ==
  IF n = 0 THEN {<<>>}
  ELSE LET shorter == StringsUpTo(alphabet, n - 1) IN
       shorter \cup {Append(x, c) : x \in {y \in shorter : Len(y) = n - 1}, c \in alphabet}

SalaryArgs == {NoneArg} \cup {StrArg(x) : x \in StringsUpTo(SalaryAlphabet, MaxLen)}

Cells == {NoneArg, StrArg(<<>>), StrArg(<<" ">>), StrArg(<<"a">>), StrArg(<<" ", "b", " ">>)}
SalaryCells == {NoneArg, StrArg(<<>>), StrArg(<<"3">>)}
Rows == [job_title : Cells, salary_range : SalaryCells,
         company_profile : Cells, requirements : Cells]

\* a form built from a record: no free text
FormOfRow(r) == [text |-> NoneArg, job_title |-> r.job_title, salary_range |-> r.salary_range,
                 company_profile |-> r.company_profile, requirements |-> r.requirements]

EmptyForm == [text |-> NoneArg, job_title |-> NoneArg, salary_range |-> NoneArg,
              company_profile |-> NoneArg, requirements |-> NoneArg]
Forms == [text : {StrArg(<<>>), StrArg(<<"a">>)},
          job_title : {StrArg(<<>>), StrArg(<<"b">>)},
          salary_range : {StrArg(<<>>), StrArg(<<"3">>)},
          company_profile : {StrArg(<<>>)},
          requirements : {StrArg(<<" ">>)}]

SalaryIdle == /\ salIn = NoneArg
              /\ salOut = [p \in Paths |-> Zero]
              /\ salDone = {}
TextIdle == /\ row = [job_title |-> NoneArg, salary_range |-> NoneArg,
                      company_profile |-> NoneArg, requirements |-> NoneArg]
            /\ txtOut = [p \in Paths |-> <<>>]
            /\ txtDone = {}
ServiceIdle == /\ vecFile = AbsentFile
               /\ modelFile = AbsentFile
               /\ ml = [vectorizer |-> None, model |-> None]
               /\ pc = [t \in Threads |-> "idle"]
               /\ req = [t \in Threads |-> EmptyForm]
               /\ resp = [t \in Threads |-> "none"]
               /\ obs = [t \in Threads |-> NotRead]
               /\ loadErr = [t \in Threads |-> FALSE]
               /\ trained = [t \in Threads |-> FALSE]
               /\ modelLoads = 0
               /\ trainPc = "idle"
               /\ dfCols = {}
               /\ trainErr = ""
               /\ steps = <<>>
               /\ runs = 0
               /\ fileAtStart = AbsentFile

\* -------------------------------------------------------------- SpecSalary
InitSalary == /\ salIn \in SalaryArgs
              /\ salOut = [p \in Paths |-> Zero]
              /\ salDone = {}
              /\ TextIdle
              /\ ServiceIdle

CallAppCleanSalary ==
  /\ "app" \notin salDone
  /\ salOut' = [salOut EXCEPT !["app"] = app_clean_salary(salIn)]
  /\ salDone' = salDone \cup {"app"}
  /\ UNCHANGED <<salIn, txtVars, fileVars, reqVars, trainVars>>

CallTrainCleanSalary ==
  /\ "train" \notin salDone
  /\ salOut' = [salOut EXCEPT !["train"] = train_clean_salary(salIn)]
  /\ salDone' = salDone \cup {"train"}
  /\ UNCHANGED <<salIn, txtVars, fileVars, reqVars, trainVars>>

NextSalary == CallAppCleanSalary \/ CallTrainCleanSalary

SpecSalary == InitSalary /\ [][NextSalary]_vars

\* ---------------------------------------------------------------- SpecText
InitText == /\ row \in Rows
            /\ txtOut = [p \in Paths |-> <<>>]
            /\ txtDone = {}
            /\ SalaryIdle
            /\ ServiceIdle

\* load_data on the row
TrainAssemble ==
  /\ "train" \notin txtDone
  /\ txtOut' = [txtOut EXCEPT !["train"] = load_data_text(row)]
  /\ txtDone' = txtDone \cup {"train"}
  /\ UNCHANGED <<row, salVars, fileVars, reqVars, trainVars>>

\* predict on the form that carries the row's fields and no free text
PredictAssemble ==
  /\ "app" \notin txtDone
  /\ txtOut' = [txtOut EXCEPT !["app"] = predict_text(FormOfRow(row))]
  /\ txtDone' = txtDone \cup {"app"}
  /\ UNCHANGED <<row, salVars, fileVars, reqVars, trainVars>>

NextText == TrainAssemble \/ PredictAssemble

SpecText == InitText /\ [][NextText]_vars

\* -------------------------------------------------------------------- Spec
MaxLoads == 2   \* modelLoads stops counting here

Init == /\ SalaryIdle
        /\ TextIdle
        /\ vecFile \in {AbsentFile, CorruptFile, OkFile(0)}
        /\ modelFile \in {AbsentFile, CorruptFile, OkFile(0)}
        /\ ml = [vectorizer |-> None, model |-> None]
        /\ pc = [t \in Threads |-> "idle"]
        /\ req = [t \in Threads |-> EmptyForm]
        /\ resp = [t \in Threads |-> "none"]
        /\ obs = [t \in Threads |-> NotRead]
        /\ loadErr = [t \in Threads |-> FALSE]
        /\ trained = [t \in Threads |-> FALSE]
        /\ modelLoads = 0
        /\ trainPc = "idle"
        /\ dfCols = {}
        /\ trainErr = ""
        /\ steps = <<>>
        /\ runs = 0
        /\ fileAtStart = AbsentFile

\* a training run has finished and model.pkl is what it wrote
TrainedArtifact == runs >= 1 /\ modelFile = OkFile(runs) /\ trainPc \in {"idle", "done", "aborted"}

\* predict, up to the call of load_ml: read the form, fold the fields into
\* the text, reject a blank text
Predict_Begin(t) ==
  /\ pc[t] = "idle"
  /\ \E form \in Forms :
       /\ req' = [req EXCEPT ![t] = form]
       /\ trained' = [trained EXCEPT ![t] = TrainedArtifact]
       /\ IF predict_text(form) = <<>>
            THEN /\ resp' = [resp EXCEPT ![t] = "InputEmpty"]
                 /\ pc' = [pc EXCEPT ![t] = "done"]
            ELSE /\ resp' = resp
                 /\ pc' = [pc EXCEPT ![t] = "load_ml"]
  /\ UNCHANGED <<ml, obs, loadErr, modelLoads, salVars, txtVars, fileVars, trainVars>>

\* load_ml: the early return when both entries are cached
LoadMl_Check(t) ==
  /\ pc[t] = "load_ml"
  /\ pc' = [pc EXCEPT ![t] =
              IF ml.model # None /\ ml.vectorizer # None THEN "run" ELSE "load_vec"]
  /\ UNCHANGED <<ml, req, resp, obs, loadErr, trained, modelLoads, salVars, txtVars, fileVars, trainVars>>

\* load_ml without its try/except: the exception leaves predict
load_ml_raise(t) ==
  /\ pc' = [pc EXCEPT ![t] = "done"]
  /\ resp' = [resp EXCEPT ![t] = "UnhandledException"]
  /\ loadErr' = [loadErr EXCEPT ![t] = TRUE]

\* load_ml: the except branch; load_ml returns and predict goes on
load_ml_except(t) ==
  /\ pc' = [pc EXCEPT ![t] = "run"]
  /\ resp' = resp
  /\ loadErr' = [loadErr EXCEPT ![t] = TRUE]

\* load_ml: the vectorizer file
LoadMl_Vec(t) ==
  /\ pc[t] = "load_vec"
  /\ IF Exists(vecFile)
       THEN IF Loadable(vecFile)
              THEN /\ ml' = [ml EXCEPT !.vectorizer = Loaded(vecFile)]
                   /\ pc' = [pc EXCEPT ![t] = "load_model"]
                   /\ UNCHANGED <<resp, loadErr>>
              ELSE /\ ml' = ml
                   /\ load_ml_except(t)
       ELSE /\ pc' = [pc EXCEPT ![t] = "load_model"]
            /\ UNCHANGED <<ml, resp, loadErr>>
  /\ UNCHANGED <<req, obs, trained, modelLoads, salVars, txtVars, fileVars, trainVars>>

\* load_ml: the model file
LoadMl_Model(t) ==
  /\ pc[t] = "load_model"
  /\ obs' = [obs EXCEPT ![t] = modelFile]
  /\ IF Exists(modelFile)
       THEN IF Loadable(modelFile)
              THEN /\ ml' = [ml EXCEPT !.model = Loaded(modelFile)]
                   /\ modelLoads' = IF modelLoads < MaxLoads THEN modelLoads + 1 ELSE modelLoads
                   /\ pc' = [pc EXCEPT ![t] = "run"]
                   /\ UNCHANGED <<resp, loadErr>>
              ELSE /\ UNCHANGED <<ml, modelLoads>>
                   /\ load_ml_except(t)
       ELSE /\ pc' = [pc EXCEPT ![t] = "run"]
            /\ UNCHANGED <<ml, modelLoads, resp, loadErr>>
  /\ UNCHANGED <<req, trained, salVars, txtVars, fileVars, trainVars>>

\* predict: the "Model files missing" test
ModelMissing(m) == m.vectorizer = None \/ m.model = None

\* predict, after load_ml: the missing-model answer, or the prediction and
\* its label
predict_result(m, form) ==
  IF ModelMissing(m) THEN "ModelUnavailable"
  ELSE LET salary_numeric == app_clean_salary(StrArg(FormGet(form, "salary_range"))) IN
       IF salary_numeric.raised \/ m.model = None THEN "PredictionFailed"
       ELSE Label(PipelinePredict(m.model.ver, predict_text(form), salary_numeric))

Predict_Run(t) ==
  /\ pc[t] = "run"
  /\ resp' = [resp EXCEPT ![t] = predict_result(ml, req[t])]
  /\ pc' = [pc EXCEPT ![t] = "done"]
  /\ UNCHANGED <<ml, req, obs, loadErr, trained, modelLoads, salVars, txtVars, fileVars, trainVars>>

\* the response is sent; the thread takes the next request
Predict_Return(t) ==
  /\ pc[t] = "done"
  /\ pc' = [pc EXCEPT ![t] = "idle"]
  /\ req' = [req EXCEPT ![t] = EmptyForm]
  /\ resp' = [resp EXCEPT ![t] = "none"]
  /\ obs' = [obs EXCEPT ![t] = NotRead]
  /\ loadErr' = [loadErr EXCEPT ![t] = FALSE]
  /\ trained' = [trained EXCEPT ![t] = FALSE]
  /\ UNCHANGED <<ml, modelLoads, salVars, txtVars, fileVars, trainVars>>

\* the column sets of the datasets: complete, or one required column missing
Datasets == {ExpectedCols} \cup {ExpectedCols \ {c} : c \in ExpectedCols}

\* train.py main: load_data on a dataset with some columns
Train_LoadData ==
  /\ trainPc = "idle"
  /\ runs < MaxVersion
  /\ \E cols \in Datasets :
       LET r == load_data(cols) IN
       /\ dfCols' = cols
       /\ steps' = r.steps
       /\ trainErr' = r.error
       /\ trainPc' = IF r.error = "" THEN "loaded" ELSE "aborted"
  /\ fileAtStart' = modelFile
  /\ UNCHANGED <<runs, salVars, txtVars, fileVars, reqVars>>

\* main: split, resample, build the pipeline, fit, evaluate
Train_Fit ==
  /\ trainPc = "loaded"
  /\ steps' = steps \o <<"split", "resample", "fit", "evaluate">>
  /\ trainPc' = "fitted"
  /\ UNCHANGED <<dfCols, trainErr, runs, fileAtStart, salVars, txtVars, fileVars, reqVars>>

\* joblib.dump opens model.pkl for writing: the old content is gone
Train_DumpOpen ==
  /\ trainPc = "fitted"
  /\ modelFile' = PartialFile(runs + 1)
  /\ trainPc' = "dumping"
  /\ UNCHANGED <<vecFile, dfCols, trainErr, steps, runs, fileAtStart, salVars, txtVars, reqVars>>

\* joblib.dump has written the whole pipeline
Train_DumpWrite ==
  /\ trainPc = "dumping"
  /\ modelFile' = OkFile(runs + 1)
  /\ steps' = Append(steps, "dump")
  /\ runs' = runs + 1
  /\ trainPc' = "done"
  /\ UNCHANGED <<vecFile, dfCols, trainErr, fileAtStart, salVars, txtVars, reqVars>>

\* the script exits
Train_Exit ==
  /\ trainPc \in {"done", "aborted"}
  /\ trainPc' = "idle"
  /\ dfCols' = {}
  /\ trainErr' = ""
  /\ steps' = <<>>
  /\ fileAtStart' = AbsentFile
  /\ UNCHANGED <<runs, salVars, txtVars, fileVars, reqVars>>

Next ==
  \/ \E t \in Threads : Predict_Begin(t)
  \/ \E t \in Threads : LoadMl_Check(t)
  \/ \E t \in Threads : LoadMl_Vec(t)
  \/ \E t \in Threads : LoadMl_Model(t)
  \/ \E t \in Threads : Predict_Run(t)
  \/ \E t \in Threads : Predict_Return(t)
  \/ Train_LoadData
  \/ Train_Fit
  \/ Train_DumpOpen
  \/ Train_DumpWrite
  \/ Train_Exit

Spec == Init /\ [][Next]_vars

\* ---------------------------------------------------------------- properties
NonBlank(form) == predict_text(form) # <<>>

\* the free text and the three textual fields are all blank
TextualBlank(form) ==
  /\ FormGet(form, "text") = <<>>
  /\ FormGet(form, "job_title") = <<>>
  /\ FormGet(form, "company_profile") = <<>>
  /\ FormGet(form, "requirements") = <<>>

\* C1: a request with non-blank text that came in after a training run
\* had finished and written model.pkl (and none of whose loads raised)
\* returns one of the two labels, never ModelUnavailable, and two such
\* requests with the same form return the same label.
C1_TrainThenServe ==
  /\ \A t \in Threads :
       (pc[t] = "done" /\ NonBlank(req[t]) /\ trained[t] /\ ~loadErr[t])
       => resp[t] \in Labels
  /\ \A t, u \in Threads :
       (pc[t] = "done" /\ pc[u] = "done" /\ req[t] = req[u]
          /\ trained[t] /\ trained[u] /\ ~loadErr[t] /\ ~loadErr[u])
       => resp[t] = resp[u]

\* C2: a request whose free text and three textual fields are blank ends
\* with InputEmpty without load_ml having looked at the store, whatever its
\* salary_range is.
C2_InputEmpty ==
  \A t \in Threads :
    (pc[t] # "idle" /\ TextualBlank(req[t]))
    => (pc[t] = "done" /\ resp[t] = "InputEmpty" /\ obs[t] = NotRead)

\* C3: for a record with some non-blank textual field, predict (no free
\* text) and load_data build the same text.
C3_SameText ==
  (txtDone = Paths /\ ~TextualBlank(FormOfRow(row)))
  => txtOut["app"] = txtOut["train"]

\* end of the match of  \d+(?:,\d+)*  starting at the digit at i
RECURSIVE RepeatedMatchEnd(_, _)
RepeatedMatchEnd(s, i) ==
  LET d == DigitRunEnd(s, i) IN
  IF d + 2 <= Len(s) /\ s[d + 1] = "," /\ IsDigit(s[d + 2])
    THEN RepeatedMatchEnd(s, d + 2)
    ELSE d

RECURSIVE SeparatedNumbersFrom(_, _)
SeparatedNumbersFrom(s, i) ==
  IF i > Len(s) THEN <<>>
  ELSE IF IsDigit(s[i])
    THEN LET e == RepeatedMatchEnd(s, i) IN
         <<SubSeq(s, i, e)>> \o SeparatedNumbersFrom(s, e + 1)
    ELSE SeparatedNumbersFrom(s, i + 1)

\* the maximal digit runs with any number of embedded comma groups
SeparatedNumbers(s) == SeparatedNumbersFrom(s, 1)

\* C4: when the argument holds exactly one digit run with embedded comma
\* groups, each copy of clean_salary returns that number, separators
\* stripped.
C4_OneNumber ==
  \A p \in salDone :
    (~salIn.none /\ Len(SeparatedNumbers(salIn.str)) = 1)
    => salOut[p] = Quotient(DigitsValue(RemoveCommas(SeparatedNumbers(salIn.str)[1])), 1)

HasDigit(s) == \E i \in 1..Len(s) : IsDigit(s[i])

\* C5: neither copy of clean_salary raises, the result is never negative,
\* and it is 0.0 for None and for every string without a digit.
C5_Total ==
  \A p \in salDone :
    /\ ~salOut[p].raised
    /\ salOut[p].n >= 0 /\ salOut[p].d >= 1
    /\ (salIn.none \/ ~HasDigit(salIn.str)) => salOut[p] = Zero

\* both copies applied to non-numeric text
C5_Witness ==
  /\ salDone = Paths
  /\ ~salIn.none
  /\ salIn.str = <<"x", ",", " ", "x">>
  /\ salOut["app"] = Zero /\ salOut["train"] = Zero

\* C6: a finished request with non-blank text, with no model in the cache
\* (model.pkl absent, or its load raised), has answered ModelUnavailable;
\* and no step of a request changes a file of the store.
C6_ModelUnavailable ==
  /\ [](\A t \in Threads :
          (pc[t] = "done" /\ NonBlank(req[t]) /\ ml.model = None)
          => resp[t] = "ModelUnavailable")
  /\ [][pc' # pc => fileVars' = fileVars]_vars

\* one request found model.pkl absent, the other had its load raise; both
\* answered ModelUnavailable
C6_Witness ==
  /\ pc["t1"] = "done" /\ obs["t1"].state = "absent" /\ resp["t1"] = "ModelUnavailable"
  /\ pc["t2"] = "done" /\ loadErr["t2"] /\ resp["t2"] = "ModelUnavailable"
  /\ ml.model = None

\* C7: a run on a dataset that lacks a required column is aborted with
\* SchemaMismatch, has gone through no stage, and model.pkl is as it was when
\* the run started.
C7_SchemaMismatch ==
  (trainPc # "idle" /\ ~(ExpectedCols \subseteq dfCols))
  => /\ trainPc = "aborted"
     /\ trainErr = "SchemaMismatch"
     /\ steps = <<>>
     /\ modelFile = fileAtStart

\* a run without the label column aborted, with an artifact in place
C7_Witness ==
  /\ trainPc = "aborted"
  /\ "fraudulent" \notin dfCols
  /\ trainErr = "SchemaMismatch"
  /\ modelFile.state = "ok"

\* C8: model.pkl is loaded at most once in a process.
C8_LoadOnce == modelLoads <= 1

\* C9: outside load_ml, the cache entries are both populated or both empty.
C9_AllOrNothing ==
  (\A t \in Threads : pc[t] \notin {"load_vec", "load_model"})
  => ((ml.vectorizer = None) <=> (ml.model = None))

\* C10: no load finds model.pkl partially written.
C10_AtomicReplace == \A t \in Threads : obs[t].state # "partial"

====
